---- MODULE Spec2Model ----
(***************************************************************************)
(* Ciryx Vibe (src/app.py): the request-handling core around the sentiment *)
(* classifier - POST /analyze and POST /batch.                             *)
(*                                                                         *)
(* Values are JSON/Python values tagged by kind.  A string is kept as its  *)
(* run-length encoding (a sequence of <<character, count>> runs, adjacent  *)
(* runs of one character merged), so that texts of 5000 characters and the *)
(* operations the code applies to them (len, strip, slicing, +, upper,     *)
(* lower) are computed character-exactly.                                  *)
(* Wall-clock values (processing_time_ms, total_processing_time_ms,        *)
(* timestamp) are not part of the modelled responses.                      *)
(***************************************************************************)
EXTENDS Integers, Sequences, FiniteSets, TLC

VARIABLES sentiment_pipeline, pc, req, resp, calls, first

vars == <<sentiment_pipeline, pc, req, resp, calls, first>>

----------------------------------------------------------------------------
(* Program constants *)

MAX_TEXT_LEN == 5000
MAX_BATCH == 100
INPUT_PREVIEW_LEN == 100
BATCH_PREVIEW_LEN == 50
CONFIDENCE_SCALE == 10000   \* round(confidence, 4): confidences are counted in 1/10000

(* Bounds of the model *)

MaxBatch == 2        \* short batches enumerate every item sequence up to this length

----------------------------------------------------------------------------
(* Python values *)

Null == [kind |-> "null"]
Num(n) == [kind |-> "num", n |-> n]
Str(runs) == [kind |-> "str", runs |-> runs]
List(items) == [kind |-> "list", items |-> items]
Obj(fields) == [kind |-> "obj", fields |-> fields]

RECURSIVE Canon(_)
Canon(runs) ==
    IF Len(runs) = 0 THEN <<>>
    ELSE IF runs[1][2] = 0 THEN Canon(Tail(runs))
    ELSE IF Len(runs) = 1 THEN runs
    ELSE IF runs[2][2] = 0 THEN Canon(<<runs[1]>> \o Tail(Tail(runs)))
    ELSE IF runs[1][1] = runs[2][1]
         THEN Canon(<<(<<runs[1][1], runs[1][2] + runs[2][2]>>)>> \o Tail(Tail(runs)))
    ELSE <<runs[1]>> \o Canon(Tail(runs))

FromChars(chars) == Str(Canon([i \in 1..Len(chars) |-> <<chars[i], 1>>]))
Repeat(c, n) == Str(Canon(<<(<<c, n>>)>>))

RECURSIVE RunsLen(_)
RunsLen(runs) == IF Len(runs) = 0 THEN 0 ELSE runs[1][2] + RunsLen(Tail(runs))

\* len(s)
StrLen(s) == RunsLen(s.runs)

\* a + b
Concat(a, b) == Str(Canon(a.runs \o b.runs))

RECURSIVE TakeRuns(_, _)
TakeRuns(runs, n) ==
    IF n <= 0 \/ Len(runs) = 0 THEN <<>>
    ELSE IF runs[1][2] >= n THEN <<(<<runs[1][1], n>>)>>
    ELSE <<runs[1]>> \o TakeRuns(Tail(runs), n - runs[1][2])

\* s[:n]
Slice(s, n) == Str(TakeRuns(s.runs, n))

Whitespace == {" ", "\t", "\n", "\r"}

RECURSIVE LStripRuns(_)
LStripRuns(runs) ==
    IF Len(runs) = 0 THEN <<>>
    ELSE IF runs[1][1] \in Whitespace THEN LStripRuns(Tail(runs))
    ELSE runs

RECURSIVE RStripRuns(_)
RStripRuns(runs) ==
    IF Len(runs) = 0 THEN <<>>
    ELSE IF runs[Len(runs)][1] \in Whitespace THEN RStripRuns(SubSeq(runs, 1, Len(runs) - 1))
    ELSE runs

\* s.strip()
Strip(s) == Str(RStripRuns(LStripRuns(s.runs)))

LowerLetters == <<"a", "b", "c", "d", "e", "f", "g", "h", "i", "j", "k", "l", "m",
                  "n", "o", "p", "q", "r", "s", "t", "u", "v", "w", "x", "y", "z">>
UpperLetters == <<"A", "B", "C", "D", "E", "F", "G", "H", "I", "J", "K", "L", "M",
                  "N", "O", "P", "Q", "R", "S", "T", "U", "V", "W", "X", "Y", "Z">>

UpperChar(c) ==
    IF \E i \in 1..Len(LowerLetters) : LowerLetters[i] = c
    THEN UpperLetters[CHOOSE i \in 1..Len(LowerLetters) : LowerLetters[i] = c]
    ELSE c

LowerChar(c) ==
    IF \E i \in 1..Len(UpperLetters) : UpperLetters[i] = c
    THEN LowerLetters[CHOOSE i \in 1..Len(UpperLetters) : UpperLetters[i] = c]
    ELSE c

\* s.upper()
Upper(s) == Str(Canon([i \in 1..Len(s.runs) |-> <<UpperChar(s.runs[i][1]), s.runs[i][2]>>]))

\* s.lower()
Lower(s) == Str(Canon([i \in 1..Len(s.runs) |-> <<LowerChar(s.runs[i][1]), s.runs[i][2]>>]))

\* bool(v)
Truthy(v) ==
    CASE v.kind = "null" -> FALSE
      [] v.kind = "str"  -> StrLen(v) > 0
      [] v.kind = "num"  -> v.n # 0
      [] v.kind = "list" -> Len(v.items) > 0
      [] v.kind = "obj"  -> DOMAIN v.fields # {}

\* the kinds of value on which `key in v` does not raise TypeError
SupportsIn(v) == v.kind \in {"obj", "list"}

\* key in v, for a dict (its keys) or a list (its elements)
HasKey(v, key) ==
    IF v.kind = "obj" THEN key \in DOMAIN v.fields
    ELSE \E i \in 1..Len(v.items) : v.items[i] = key

----------------------------------------------------------------------------
(* String literals of the program *)

KEY_TEXT == FromChars(<<"t", "e", "x", "t">>)
KEY_TEXTS == FromChars(<<"t", "e", "x", "t", "s">>)
ELLIPSIS == FromChars(<<".", ".", ".">>)
MODEL_NAME == FromChars(<<"c", "a", "r", "d", "i", "f", "f", "n", "l", "p", "/", "t", "w", "i", "t", "t", "e", "r", "-", "r", "o", "b", "e", "r", "t", "a", "-", "b", "a", "s", "e", "-", "s", "e", "n", "t", "i", "m", "e", "n", "t", "-", "l", "a", "t", "e", "s", "t">>)
SERVICE_NAME == FromChars(<<"C", "i", "r", "y", "x", " ", "V", "i", "b", "e">>)
MSG_MISSING_TEXT == FromChars(<<"M", "i", "s", "s", "i", "n", "g", " ", "r", "e", "q", "u", "i", "r", "e", "d", " ", "f", "i", "e", "l", "d", ":", " ", "t", "e", "x", "t">>)
MSG_EMPTY_TEXT == FromChars(<<"T", "e", "x", "t", " ", "c", "a", "n", "n", "o", "t", " ", "b", "e", " ", "e", "m", "p", "t", "y">>)
MSG_TEXT_TOO_LONG == FromChars(<<"T", "e", "x", "t", " ", "t", "o", "o", " ", "l", "o", "n", "g", ".", " ", "M", "a", "x", "i", "m", "u", "m", " ", "5", "0", "0", "0", " ", "c", "h", "a", "r", "a", "c", "t", "e", "r", "s", ".">>)
MSG_INTERNAL == FromChars(<<"I", "n", "t", "e", "r", "n", "a", "l", " ", "s", "e", "r", "v", "e", "r", " ", "e", "r", "r", "o", "r">>)
MSG_MISSING_TEXTS == FromChars(<<"M", "i", "s", "s", "i", "n", "g", " ", "r", "e", "q", "u", "i", "r", "e", "d", " ", "f", "i", "e", "l", "d", ":", " ", "t", "e", "x", "t", "s", " ", "(", "a", "r", "r", "a", "y", ")">>)
MSG_INVALID_FORMAT == FromChars(<<"t", "e", "x", "t", "s", " ", "m", "u", "s", "t", " ", "b", "e", " ", "a", "n", " ", "a", "r", "r", "a", "y">>)
MSG_BATCH_TOO_LARGE == FromChars(<<"M", "a", "x", "i", "m", "u", "m", " ", "1", "0", "0", " ", "t", "e", "x", "t", "s", " ", "p", "e", "r", " ", "b", "a", "t", "c", "h">>)
MSG_EMPTY_ITEM == FromChars(<<"E", "m", "p", "t", "y", " ", "t", "e", "x", "t">>)

LABEL_0 == FromChars(<<"L", "A", "B", "E", "L", "_", "0">>)
LABEL_1 == FromChars(<<"L", "A", "B", "E", "L", "_", "1">>)
LABEL_2 == FromChars(<<"L", "A", "B", "E", "L", "_", "2">>)
NEGATIVE == FromChars(<<"N", "E", "G", "A", "T", "I", "V", "E">>)
NEUTRAL == FromChars(<<"N", "E", "U", "T", "R", "A", "L">>)
POSITIVE == FromChars(<<"P", "O", "S", "I", "T", "I", "V", "E">>)
negative == FromChars(<<"n", "e", "g", "a", "t", "i", "v", "e">>)
neutral == FromChars(<<"n", "e", "u", "t", "r", "a", "l">>)
positive == FromChars(<<"p", "o", "s", "i", "t", "i", "v", "e">>)

----------------------------------------------------------------------------
(* The classifier collaborator: self.sentiment_pipeline(text)[0].           *)
(* It either raises (with a description) or returns a label and a score.   *)
(* A score is a decimal in [0,1] counted in units of 1/(10*CONFIDENCE_SCALE).*)

Fault(desc) == [kind |-> "fault", desc |-> desc]
Ok(label, score) == [kind |-> "ok", label |-> label, score |-> score]

SCORE_ONE == 10 * CONFIDENCE_SCALE

FAULT_OOM == FromChars(<<"C", "U", "D", "A", " ", "o", "u", "t", " ", "o", "f", " ", "m", "e", "m", "o", "r", "y">>)

\* first character of the text that is not whitespace: the key by which the
\* bounded family of classifiers below tells texts apart
ContentChar(text) == Strip(text).runs[1][1]

\* Faulty variant of Classify: a model loaded lazily, so that the classifier
\* faults until an /analyze request has been answered
ClassifyWarmUp(text) ==
    IF first.set THEN sentiment_pipeline[ContentChar(text)] ELSE Fault(FAULT_OOM)

\* result = self.sentiment_pipeline(text)[0]
Classify(text) == sentiment_pipeline[ContentChar(text)]

\* Faulty variant of Round: the confidence reported as a percentage
RoundPercent(score) == 100 * (score \div 10)

\* round(confidence, 4), round-half-even on the exact value.  Scores are drawn
\* from values that a binary float holds exactly or that are not ties.
Round(score) ==
    LET q == score \div 10
        r == score % 10
    IN  IF r < 5 THEN q
        ELSE IF r > 5 THEN q + 1
        ELSE IF q % 2 = 0 THEN q ELSE q + 1

sentiment_mapping ==
    << <<LABEL_0, negative>>, <<LABEL_1, neutral>>, <<LABEL_2, positive>>,
       <<NEGATIVE, negative>>, <<NEUTRAL, neutral>>, <<POSITIVE, positive>> >>

\* d.get(key, default)
DictGet(d, key, default) ==
    IF \E i \in 1..Len(d) : d[i][1] = key
    THEN d[CHOOSE i \in 1..Len(d) : d[i][1] = key][2]
    ELSE default

\* Faulty variant of Normalize: the table looked up with the raw label,
\* sentiment_mapping.get(label, label.lower())
NormalizeCaseSensitive(label) == DictGet(sentiment_mapping, label, Lower(label))

\* sentiment = sentiment_mapping.get(label.upper(), label.lower())
Normalize(label) == DictGet(sentiment_mapping, Upper(label), Lower(label))

\* CiryxVibe.analyze_sentiment(text): the classifier is called once; a fault is
\* logged and re-raised, otherwise the label is normalized and the score rounded.
CiryxVibe_analyze_sentiment(text) ==
    LET result == Classify(text)
    IN  IF result.kind = "fault"
        THEN [raised |-> TRUE, desc |-> result.desc]
        ELSE [raised |-> FALSE,
              sentiment |-> Normalize(result.label),
              confidence |-> Num(Round(result.score))]

----------------------------------------------------------------------------
(* Response envelopes (jsonify(...), status) *)

ErrorResponse(status, message, code) ==
    [status |-> status, body |-> [error |-> message, code |-> code]]

Metadata == [model |-> MODEL_NAME, service |-> SERVICE_NAME]

\* text[:n] + "..." if len(text) > n else text
Preview(text, n) == IF StrLen(text) > n THEN Concat(Slice(text, n), ELLIPSIS) ELSE text

AnalyzeSuccess(text, result) ==
    [status |-> 200,
     body |-> [success |-> TRUE,
               data |-> [input_text |-> Preview(text, INPUT_PREVIEW_LEN),
                         sentiment |-> result.sentiment,
                         confidence |-> result.confidence],
               metadata |-> Metadata]]

----------------------------------------------------------------------------
(* The checks of the two handlers *)

\* not text.strip()
IsBlank(text) == ~Truthy(Strip(text))

\* Faulty variant of TooLong: len(text) >= 5000
TooLongInclusive(text) == StrLen(text) >= MAX_TEXT_LEN

\* len(text) > 5000
TooLong(text) == StrLen(text) > MAX_TEXT_LEN

\* Faulty variant of BatchTooLarge: len(texts) >= 100
BatchTooLargeInclusive(texts) == Len(texts) >= MAX_BATCH

\* len(texts) > 100
BatchTooLarge(texts) == Len(texts) > MAX_BATCH

----------------------------------------------------------------------------
(* POST /analyze.  The handler yields the response and the log of the texts *)
(* handed to the classifier.  Any exception raised inside the try block is  *)
(* answered with 500 ANALYSIS_ERROR.                                        *)

AnalysisError == ErrorResponse(500, MSG_INTERNAL, "ANALYSIS_ERROR")

analyze_sentiment(data) ==
    IF ~Truthy(data)
    THEN [resp |-> ErrorResponse(400, MSG_MISSING_TEXT, "MISSING_TEXT"), calls |-> <<>>]
    ELSE IF ~SupportsIn(data)                      \* 'text' in data raises TypeError
    THEN [resp |-> AnalysisError, calls |-> <<>>]
    ELSE IF ~HasKey(data, KEY_TEXT)
    THEN [resp |-> ErrorResponse(400, MSG_MISSING_TEXT, "MISSING_TEXT"), calls |-> <<>>]
    ELSE IF data.kind # "obj"                      \* data['text'] raises TypeError
    THEN [resp |-> AnalysisError, calls |-> <<>>]
    ELSE LET text == data.fields[KEY_TEXT] IN
         IF text.kind # "str"                      \* text.strip raises AttributeError
         THEN [resp |-> AnalysisError, calls |-> <<>>]
         ELSE IF IsBlank(text)
         THEN [resp |-> ErrorResponse(400, MSG_EMPTY_TEXT, "EMPTY_TEXT"), calls |-> <<>>]
         ELSE IF TooLong(text)
         THEN [resp |-> ErrorResponse(400, MSG_TEXT_TOO_LONG, "TEXT_TOO_LONG"), calls |-> <<>>]
         ELSE LET result == CiryxVibe_analyze_sentiment(text) IN
              IF result.raised
              THEN [resp |-> AnalysisError, calls |-> <<text>>]
              ELSE [resp |-> AnalyzeSuccess(text, result), calls |-> <<text>>]

----------------------------------------------------------------------------
(* POST /batch *)

EmptyItem(i) ==
    [index |-> i, error |-> MSG_EMPTY_ITEM, sentiment |-> Null, confidence |-> Null]

AnalyzedItem(i, text, result) ==
    [index |-> i,
     text_preview |-> Preview(text, BATCH_PREVIEW_LEN),
     sentiment |-> result.sentiment,
     confidence |-> result.confidence]

FailedItem(i, desc) ==
    [index |-> i, error |-> desc, sentiment |-> Null, confidence |-> Null]

\* One pass of the body of `for i, text in enumerate(texts):` on the item at
\* 1-based position n (i = n - 1), from the loop state st.
\* `not text or not text.strip()` is evaluated outside the inner try: on a
\* truthy item that is no string, text.strip raises AttributeError and the
\* loop is left for the handler's outer except.
LoopBody(texts, n, st) ==
    LET text == texts[n]
        i == n - 1
    IN  IF ~Truthy(text)
        THEN [st EXCEPT !.results = Append(@, EmptyItem(i))]
        ELSE IF text.kind # "str"
        THEN [st EXCEPT !.raised = TRUE]
        ELSE IF IsBlank(text)
        THEN [st EXCEPT !.results = Append(@, EmptyItem(i))]
        ELSE LET result == CiryxVibe_analyze_sentiment(text) IN
             IF result.raised
             THEN [st EXCEPT !.results = Append(@, FailedItem(i, result.desc)),
                             !.calls = Append(@, text)]
             ELSE [st EXCEPT !.results = Append(@, AnalyzedItem(i, text, result)),
                             !.calls = Append(@, text)]

\* The loop over positions lo..hi in input order, left when an exception
\* escapes the body.  (The range is folded by halves, left half first.)
RECURSIVE BatchLoop(_, _, _, _)
BatchLoop(texts, lo, hi, st) ==
    IF st.raised \/ lo > hi THEN st
    ELSE IF lo = hi THEN LoopBody(texts, lo, st)
    ELSE LET mid == (lo + hi) \div 2
             left == BatchLoop(texts, lo, mid, st)
         IN  BatchLoop(texts, mid + 1, hi, left)

LoopStart == [raised |-> FALSE, results |-> <<>>, calls |-> <<>>]

\* len([r for r in results if 'sentiment' in r and r['sentiment']])
SuccessfulAnalyses(results) ==
    Cardinality({k \in 1..Len(results) :
                    "sentiment" \in DOMAIN results[k] /\ Truthy(results[k].sentiment)})

BatchSuccess(texts, results) ==
    [status |-> 200,
     body |-> [success |-> TRUE,
               data |-> [results |-> results,
                         summary |-> [total_texts |-> Len(texts),
                                      successful_analyses |-> SuccessfulAnalyses(results)]],
               metadata |-> Metadata]]

BatchError == ErrorResponse(500, MSG_INTERNAL, "BATCH_ERROR")

batch_analyze(data) ==
    IF ~Truthy(data)
    THEN [resp |-> ErrorResponse(400, MSG_MISSING_TEXTS, "MISSING_TEXTS"), calls |-> <<>>]
    ELSE IF ~SupportsIn(data)                      \* 'texts' in data raises TypeError
    THEN [resp |-> BatchError, calls |-> <<>>]
    ELSE IF ~HasKey(data, KEY_TEXTS)
    THEN [resp |-> ErrorResponse(400, MSG_MISSING_TEXTS, "MISSING_TEXTS"), calls |-> <<>>]
    ELSE IF data.kind # "obj"                      \* data['texts'] raises TypeError
    THEN [resp |-> BatchError, calls |-> <<>>]
    ELSE LET texts == data.fields[KEY_TEXTS] IN
         IF texts.kind # "list"
         THEN [resp |-> ErrorResponse(400, MSG_INVALID_FORMAT, "INVALID_FORMAT"), calls |-> <<>>]
         ELSE IF BatchTooLarge(texts.items)
         THEN [resp |-> ErrorResponse(400, MSG_BATCH_TOO_LARGE, "BATCH_TOO_LARGE"), calls |-> <<>>]
         ELSE LET run == BatchLoop(texts.items, 1, Len(texts.items), LoopStart) IN
              IF run.raised
              THEN [resp |-> BatchError, calls |-> run.calls]
              ELSE [resp |-> BatchSuccess(texts.items, run.results), calls |-> run.calls]

----------------------------------------------------------------------------
(* Inputs: the request payloads and the classifiers the model ranges over *)

EMPTY == Str(<<>>)
BLANK == Repeat(" ", 3)
GOOD == Repeat("g", 4)
BAD == Repeat("b", 3)
PADDED_LONG == Concat(Repeat(" ", 1), Repeat("g", BATCH_PREVIEW_LEN + 1))

\* /analyze texts around every threshold of the handler
AnalyzeTexts ==
    { EMPTY, BLANK, Repeat(" ", MAX_TEXT_LEN + 1), GOOD, BAD,
      Repeat("g", INPUT_PREVIEW_LEN), Repeat("g", INPUT_PREVIEW_LEN + 1),
      Repeat("g", MAX_TEXT_LEN), Repeat("g", MAX_TEXT_LEN + 1),
      Concat(Concat(Repeat(" ", 1), Repeat("g", MAX_TEXT_LEN - 2)), Repeat(" ", 1)),
      Concat(Concat(Repeat(" ", 1), Repeat("g", MAX_TEXT_LEN - 1)), Repeat(" ", 1)) }

AnalyzePayloads ==
    { Null, Num(5), Obj(<<>>), List(<<KEY_TEXT>>), List(<<GOOD>>),
      Obj(KEY_TEXTS :> List(<<GOOD>>)), Obj(KEY_TEXT :> Null), Obj(KEY_TEXT :> Num(5)) }
    \cup { Obj(KEY_TEXT :> t) : t \in AnalyzeTexts }

\* the items a batch may hold: absent, empty, blank, texts, and a number
Items == { Null, EMPTY, BLANK, GOOD, BAD, PADDED_LONG, Num(5) }

ShortBatches == UNION { [1..n -> Items] : n \in 0..MaxBatch }

\* batches at the size limit: MAX_BATCH and MAX_BATCH + 1 items
LongBatches ==
    { [k \in 1..n |-> IF k = n THEN last ELSE GOOD] :
        n \in {MAX_BATCH, MAX_BATCH + 1}, last \in {BAD, EMPTY} }

BatchPayloads ==
    { Null, Num(5), Obj(<<>>), List(<<KEY_TEXTS>>), Obj(KEY_TEXT :> GOOD),
      Obj(KEY_TEXTS :> Null), Obj(KEY_TEXTS :> GOOD) }
    \cup { Obj(KEY_TEXTS :> List(b)) : b \in ShortBatches \cup LongBatches }

Labels ==
    << LABEL_0,
       FromChars(<<"l", "a", "b", "e", "l", "_", "1">>),
       FromChars(<<"L", "a", "b", "e", "l", "_", "2">>),
       NEGATIVE,
       neutral,
       FromChars(<<"P", "o", "s", "i", "t", "i", "v", "e">>),
       FromChars(<<"F", "O", "O">>),
       EMPTY >>

\* 0.0, 0.03125 and 0.09375 (exact ties of round(.., 4)), 0.87654, 0.99996, 1.0
Scores == << 0, 3125, 9375, 87654, 99996, SCORE_ONE >>

Outcomes ==
    { Fault(FAULT_OOM) }
    \cup { Ok(Labels[k], Scores[((k - 1) % Len(Scores)) + 1]) : k \in 1..Len(Labels) }

ContentChars == {"g", "b"}

\* a bounded family of deterministic classifiers: any outcome on "g" texts,
\* a fault or a canonical label on "b" texts
Classifiers ==
    { [c \in ContentChars |-> IF c = "g" THEN og ELSE ob] :
        og \in Outcomes,
        ob \in { Fault(FAULT_OOM), Ok(POSITIVE, SCORE_ONE) } }

----------------------------------------------------------------------------
(* The server: one request at a time (single-threaded, synchronous).       *)
(* sentiment_pipeline is the loaded model, read-only after construction.    *)
(* req, resp and calls are the request being answered, its response and    *)
(* the texts handed to the classifier while answering it.                  *)
(* first remembers the first /analyze request of the run and its response,  *)
(* and whether /analyze has been requested again since.                    *)

NoRequest == [endpoint |-> "none"]
NoResponse == [status |-> 0]

Init ==
    /\ sentiment_pipeline \in Classifiers
    /\ pc = "idle"
    /\ req = NoRequest
    /\ resp = NoResponse
    /\ calls = <<>>
    /\ first = [set |-> FALSE, again |-> FALSE]

\* POST /analyze
Analyze ==
    /\ pc = "idle"
    /\ \E data \in AnalyzePayloads :
         LET out == analyze_sentiment(data) IN
           /\ req' = [endpoint |-> "analyze", data |-> data]
           /\ resp' = out.resp
           /\ calls' = out.calls
           /\ first' = IF first.set THEN [first EXCEPT !.again = TRUE]
                       ELSE [set |-> TRUE, again |-> FALSE,
                             data |-> data, resp |-> out.resp]
    /\ pc' = "done"
    /\ UNCHANGED sentiment_pipeline

\* POST /batch
Batch ==
    /\ pc = "idle"
    /\ \E data \in BatchPayloads :
         LET out == batch_analyze(data) IN
           /\ req' = [endpoint |-> "batch", data |-> data]
           /\ resp' = out.resp
           /\ calls' = out.calls
    /\ pc' = "done"
    /\ UNCHANGED <<sentiment_pipeline, first>>

\* the response has been returned; the server waits for the next request
AwaitRequest ==
    /\ pc = "done"
    /\ pc' = "idle"
    /\ req' = NoRequest
    /\ resp' = NoResponse
    /\ calls' = <<>>
    /\ UNCHANGED <<sentiment_pipeline, first>>

Next == Analyze \/ Batch \/ AwaitRequest

Spec == Init /\ [][Next]_vars

----------------------------------------------------------------------------
(* Vocabulary of the properties *)

\* a request to the endpoint has been answered
Done(endpoint) == pc = "done" /\ req.endpoint = endpoint

IsObject == req.data.kind = "obj"
HasText == IsObject /\ KEY_TEXT \in DOMAIN req.data.fields
ReqText == req.data.fields[KEY_TEXT]
HasTexts == IsObject /\ KEY_TEXTS \in DOMAIN req.data.fields
ReqTexts == req.data.fields[KEY_TEXTS]

\* the response is the 400 envelope with this code
Rejected(code) == resp.status = 400 /\ resp.body.code = code

\* the response is the success envelope
Succeeded == resp.status = 200 /\ "success" \in DOMAIN resp.body /\ resp.body.success = TRUE

AllWhitespace(s) == \A k \in 1..Len(s.runs) : s.runs[k][1] \in Whitespace
NonBlankString(v) == v.kind = "str" /\ ~AllWhitespace(v)
BlankOrAbsent(v) == v.kind = "null" \/ (v.kind = "str" /\ AllWhitespace(v))

\* a text that passes the validation of /analyze
ValidText(v) == NonBlankString(v) /\ StrLen(v) <= MAX_TEXT_LEN

\* a /batch request that passes whole-request validation, and its items
BatchAccepted ==
    Done("batch") /\ HasTexts /\ ReqTexts.kind = "list" /\ Len(ReqTexts.items) <= MAX_BATCH
ReqItems == ReqTexts.items
BatchResults == resp.body.data.results
BatchSummary == resp.body.data.summary

\* the classifier returns (does not fault) on this non-blank text
Classified(v) == NonBlankString(v) /\ sentiment_pipeline[ContentChar(v)].kind = "ok"
Faulted(v) == NonBlankString(v) /\ sentiment_pipeline[ContentChar(v)].kind = "fault"

CanonicalSentiments == {negative, neutral, positive}
TableLabels == {LABEL_0, LABEL_1, LABEL_2, NEGATIVE, NEUTRAL, POSITIVE}

RECURSIVE Expand(_)
Expand(runs) ==
    IF Len(runs) = 0 THEN <<>>
    ELSE [k \in 1..runs[1][2] |-> runs[1][1]] \o Expand(Tail(runs))

\* needle occurs in hay
Contains(hay, needle) ==
    LET h == Expand(hay.runs)
        n == Expand(needle.runs)
    IN  \E o \in 0..(Len(h) - Len(n)) : \A k \in 1..Len(n) : h[o + k] = n[k]

\* the entry a batch holding only this item gives it
Alone(item) == BatchLoop(<<item>>, 1, 1, LoopStart).results[1]

----------------------------------------------------------------------------
(* C1: once /batch validation has passed, the request ends 200 success with *)
(* one entry per item, and the entry of an item that did not fail is the    *)
(* entry it would have without the other items.                             *)
C1_FailureIsolation ==
    BatchAccepted =>
        /\ Succeeded
        /\ Len(BatchResults) = Len(ReqItems)
        /\ \A k \in 1..Len(ReqItems) :
             Classified(ReqItems[k]) =>
                 BatchResults[k] = [Alone(ReqItems[k]) EXCEPT !.index = k - 1]

(* C2: for every /batch request that passes validation, results has        *)
(* len(texts) entries and the entry at position i has index i.             *)
C2_ResultsInInputOrder ==
    BatchAccepted =>
        /\ "data" \in DOMAIN resp.body
        /\ Len(BatchResults) = Len(ReqItems)
        /\ \A k \in 1..Len(ReqItems) : BatchResults[k].index = k - 1

(* C3: /analyze checks missing, then empty, then too long: no text field   *)
(* gives MISSING_TEXT; a blank text gives EMPTY_TEXT whatever its length;  *)
(* a non-blank text longer than 5000 gives TEXT_TOO_LONG; a non-blank text *)
(* of exactly 5000 characters passes validation.                           *)
C3_ValidationOrder ==
    Done("analyze") =>
        /\ (req.data = Null \/ (IsObject /\ ~HasText)) => Rejected("MISSING_TEXT")
        /\ (HasText /\ ReqText.kind = "str" /\ AllWhitespace(ReqText))
               => Rejected("EMPTY_TEXT")
        /\ (HasText /\ NonBlankString(ReqText) /\ StrLen(ReqText) > MAX_TEXT_LEN)
               => Rejected("TEXT_TOO_LONG")
        /\ (HasText /\ NonBlankString(ReqText) /\ StrLen(ReqText) = MAX_TEXT_LEN)
               => (resp.status # 400 /\ calls = <<ReqText>>)

\* a blank text longer than the limit was answered EMPTY_TEXT
C3_Witness ==
    /\ Done("analyze") /\ HasText /\ ReqText.kind = "str"
    /\ AllWhitespace(ReqText) /\ StrLen(ReqText) > MAX_TEXT_LEN
    /\ Rejected("EMPTY_TEXT")

(* C4: /batch rejects the whole request, with no per-item result, with     *)
(* MISSING_TEXTS when texts is absent, INVALID_FORMAT when it is no list,  *)
(* BATCH_TOO_LARGE when it has more than 100 items; 100 items are          *)
(* processed; [] succeeds with no results and counts 0.                    *)
C4_BatchValidation ==
    Done("batch") =>
        LET NoItemResult == "data" \notin DOMAIN resp.body /\ calls = <<>> IN
        /\ (req.data = Null \/ (IsObject /\ ~HasTexts))
               => (Rejected("MISSING_TEXTS") /\ NoItemResult)
        /\ (HasTexts /\ ReqTexts.kind # "list")
               => (Rejected("INVALID_FORMAT") /\ NoItemResult)
        /\ (HasTexts /\ ReqTexts.kind = "list" /\ Len(ReqItems) > MAX_BATCH)
               => (Rejected("BATCH_TOO_LARGE") /\ NoItemResult)
        /\ (HasTexts /\ ReqTexts.kind = "list" /\ Len(ReqItems) = MAX_BATCH
              /\ \A k \in 1..Len(ReqItems) : ReqItems[k].kind \in {"str", "null"})
               => (Succeeded /\ Len(BatchResults) = MAX_BATCH)
        /\ (HasTexts /\ ReqTexts.kind = "list" /\ Len(ReqItems) = 0)
               => /\ Succeeded
                  /\ BatchResults = <<>>
                  /\ BatchSummary.total_texts = 0
                  /\ BatchSummary.successful_analyses = 0

\* a batch of exactly 100 items was processed
C4_Witness ==
    /\ Done("batch") /\ HasTexts /\ ReqTexts.kind = "list"
    /\ Len(ReqItems) = MAX_BATCH
    /\ Succeeded /\ Len(BatchResults) = MAX_BATCH /\ Len(calls) > 0

(* C5: for a non-blank text of at most 5000 characters, when the classifier*)
(* returns a label of the table (in any letter case) and a score in [0,1], *)
(* /analyze succeeds with a canonical sentiment and a confidence in [0,1]. *)
C5_AnalyzeSuccess ==
    (/\ Done("analyze") /\ HasText /\ ValidText(ReqText)
     /\ Classified(ReqText)
     /\ Upper(sentiment_pipeline[ContentChar(ReqText)].label) \in TableLabels
     /\ sentiment_pipeline[ContentChar(ReqText)].score \in 0..SCORE_ONE)
    => /\ Succeeded
       /\ resp.body.data.sentiment \in CanonicalSentiments
       /\ resp.body.data.confidence.kind = "num"
       /\ resp.body.data.confidence.n \in 0..CONFIDENCE_SCALE

\* a 5000-character text whose label came in mixed case was answered
C5_Witness ==
    /\ Done("analyze") /\ HasText /\ ValidText(ReqText)
    /\ StrLen(ReqText) = MAX_TEXT_LEN
    /\ Classified(ReqText)
    /\ sentiment_pipeline[ContentChar(ReqText)].label \notin TableLabels
    /\ Upper(sentiment_pipeline[ContentChar(ReqText)].label) \in TableLabels
    /\ Succeeded
    /\ resp.body.data.confidence.n > 0

(* C6: in the /batch summary total_texts is len(texts), and the successful *)
(* count is the number of entries whose sentiment is present and not       *)
(* absent, which is the number of items the classifier returned on,        *)
(* whatever the label.                                                     *)
C6_SummaryCounts ==
    (BatchAccepted /\ Succeeded) =>
        /\ BatchSummary.total_texts = Len(ReqItems)
        /\ BatchSummary.successful_analyses =
             Cardinality({k \in 1..Len(BatchResults) :
                            /\ "sentiment" \in DOMAIN BatchResults[k]
                            /\ BatchResults[k].sentiment # Null})
        /\ BatchSummary.successful_analyses =
             Cardinality({k \in 1..Len(ReqItems) : Classified(ReqItems[k])})

\* the texts the classifier is due: the non-blank items, in input order
DueCalls(items) == SelectSeq(items, NonBlankString)

(* C7: the classifier is invoked exactly once per validated /analyze text  *)
(* and per non-blank /batch item, in input order; never for a blank or     *)
(* absent item, which is recorded as "Empty text"; never in a request      *)
(* rejected with 400.                                                      *)
C7_ClassifierCalls ==
    pc = "done" =>
        /\ (Done("analyze") /\ HasText /\ ValidText(ReqText)) => calls = <<ReqText>>
        /\ BatchAccepted =>
             /\ calls = DueCalls(ReqItems)
             /\ \A k \in 1..Len(ReqItems) :
                  BlankOrAbsent(ReqItems[k]) =>
                      /\ "data" \in DOMAIN resp.body
                      /\ Len(BatchResults) >= k
                      /\ BatchResults[k] = [index |-> k - 1, error |-> MSG_EMPTY_ITEM,
                                            sentiment |-> Null, confidence |-> Null]
        /\ resp.status = 400 => calls = <<>>

(* C8: a classifier fault gives 500 ANALYSIS_ERROR with a generic message  *)
(* on /analyze; on /batch it gives, in that item's entry only, the fault's *)
(* description as error with sentiment and confidence absent, and the      *)
(* response stays a 200 success.                                           *)
C8_FaultReporting ==
    /\ (Done("analyze") /\ HasText /\ ValidText(ReqText) /\ Faulted(ReqText)) =>
           /\ resp.status = 500
           /\ resp.body.code = "ANALYSIS_ERROR"
           /\ resp.body.error = MSG_INTERNAL
           /\ ~Contains(resp.body.error, sentiment_pipeline[ContentChar(ReqText)].desc)
    /\ BatchAccepted =>
           \A k \in 1..Len(ReqItems) :
               Faulted(ReqItems[k]) =>
                   /\ Succeeded
                   /\ Len(BatchResults) = Len(ReqItems)
                   /\ BatchResults[k] =
                          [index |-> k - 1,
                           error |-> sentiment_pipeline[ContentChar(ReqItems[k])].desc,
                           sentiment |-> Null, confidence |-> Null]
                   /\ \A j \in 1..Len(ReqItems) :
                          ~Faulted(ReqItems[j]) =>
                              ("error" \in DOMAIN BatchResults[j] =>
                                   BatchResults[j].error = MSG_EMPTY_ITEM)

\* what the table says of a raw label, letter case aside
Tabled(label) ==
    IF Lower(label) = Lower(LABEL_0) \/ Lower(label) = negative THEN negative
    ELSE IF Lower(label) = Lower(LABEL_1) \/ Lower(label) = neutral THEN neutral
    ELSE IF Lower(label) = Lower(LABEL_2) \/ Lower(label) = positive THEN positive
    ELSE Lower(label)

(* C9: label normalization is case-insensitive and total: a label whose    *)
(* upper-cased form is a key of the table gives the table's value, every   *)
(* other label gives the label lower-cased, never an error.                *)
C9_LabelNormalization ==
    /\ (Done("analyze") /\ HasText /\ ValidText(ReqText) /\ Classified(ReqText)) =>
           /\ Succeeded
           /\ resp.body.data.sentiment = Tabled(sentiment_pipeline[ContentChar(ReqText)].label)
    /\ (BatchAccepted /\ Succeeded) =>
           \A k \in 1..Len(ReqItems) :
               Classified(ReqItems[k]) =>
                   BatchResults[k].sentiment = Tabled(sentiment_pipeline[ContentChar(ReqItems[k])].label)

\* a table label that came in mixed case ("Label_2") was answered positive
C9_Witness ==
    /\ Done("analyze") /\ HasText /\ ValidText(ReqText) /\ Classified(ReqText)
    /\ sentiment_pipeline[ContentChar(ReqText)].label = FromChars(<<"L", "a", "b", "e", "l", "_", "2">>)
    /\ Succeeded
    /\ resp.body.data.sentiment = positive

====
